---- MODULE Spec2Model ----
(***************************************************************************)
(* Model of wsgidav/http_authenticator.py: the HTTPAuthenticator WSGI      *)
(* middleware (HTTP Basic and Digest authentication gate).                 *)
(*                                                                         *)
(* Python strings are TLA+ strings; a character is a string of length 1.   *)
(* Python's None is the reserved string None below, which no request or    *)
(* configuration value of the model equals.                                *)
(***************************************************************************)
EXTENDS Integers, Sequences, FiniteSets, TLC

VARIABLES
    phase,                  \* "new" | "ready" | "responded" | "config_error"
    config,                 \* config["http_authenticator"], as given to __init__
    accept_basic,           \* self.accept_basic
    accept_digest,          \* self.accept_digest
    default_to_digest,      \* self.default_to_digest
    trusted_auth_header,    \* self.trusted_auth_header (None or a key of environ)
    nonce_dict,             \* self._nonce_dict
    supports_digest,        \* answer of dc.supports_http_digest_auth()
    dc_raises,              \* the domain controller method that raises, or None
    HOTFIX_WINXP_AcceptRootShareLogin,   \* module global
    HOTFIX_WIN_AcceptAnonymousOptions,   \* module global
    environ,                \* the WSGI environ of the request handled last
    result,                 \* what __call__ did with that request
    inflight,               \* the calls of __call__ that have not returned yet
    issued,                 \* history: the nonces sent in challenges so far
    accepted                \* history: the Authorization headers forwarded so far

vars == <<phase, config, accept_basic, accept_digest, default_to_digest,
          trusted_auth_header, nonce_dict, supports_digest, dc_raises,
          HOTFIX_WINXP_AcceptRootShareLogin, HOTFIX_WIN_AcceptAnonymousOptions,
          environ, result, inflight, issued, accepted>>

None == "<None>"

-----------------------------------------------------------------------------
(* Characters and the str methods the code uses                            *)

LowerCaseLetters == "abcdefghijklmnopqrstuvwxyz"
UpperCaseLetters == "ABCDEFGHIJKLMNOPQRSTUVWXYZ"
Digits == "0123456789"
\* code points 32..126; code point 96 (grave accent) cannot be written in a
\* TLA+ string and no input of the model contains it: a form feed holds its place
Ascii == " !\"#$%&'()*+,-./0123456789:;<=>?@ABCDEFGHIJKLMNOPQRSTUVWXYZ[\\]^_\fabcdefghijklmnopqrstuvwxyz{|}~"

CharAt(s, i) == SubSeq(s, i, i)

CharsOf(s) == { CharAt(s, i) : i \in 1..Len(s) }

\* s.find(c) + 1 for a character c: its first position in s, 0 when absent
IndexIn(c, s) == IF \E i \in 1..Len(s) : CharAt(s, i) = c
                 THEN CHOOSE i \in 1..Len(s) :
                          /\ CharAt(s, i) = c
                          /\ \A j \in 1..(i - 1) : CharAt(s, j) # c
                 ELSE 0

\* the class \w of the re module, over the model's characters
WordChars == CharsOf(LowerCaseLetters) \cup CharsOf(UpperCaseLetters)
             \cup CharsOf(Digits) \cup {"_"}

IsWordChar(c) == c \in WordChars

IsSpace(c) == c \in {" ", "\t", "\n", "\r", "\f"}

LowerTable == [c \in CharsOf(UpperCaseLetters) |->
                  CharAt(LowerCaseLetters, IndexIn(c, UpperCaseLetters))]

UpperTable == [c \in CharsOf(LowerCaseLetters) |->
                  CharAt(UpperCaseLetters, IndexIn(c, LowerCaseLetters))]

LowerChar(c) == IF c \in DOMAIN LowerTable THEN LowerTable[c] ELSE c

UpperChar(c) == IF c \in DOMAIN UpperTable THEN UpperTable[c] ELSE c

\* str.lower()
RECURSIVE Lower(_)
Lower(s) == IF Len(s) = 0 THEN ""
            ELSE IF Len(s) = 1 THEN LowerChar(s)
            ELSE Lower(SubSeq(s, 1, Len(s) \div 2))
                 \o Lower(SubSeq(s, Len(s) \div 2 + 1, Len(s)))

\* str.upper()
RECURSIVE Upper(_)
Upper(s) == IF Len(s) = 0 THEN ""
            ELSE IF Len(s) = 1 THEN UpperChar(s)
            ELSE Upper(SubSeq(s, 1, Len(s) \div 2))
                 \o Upper(SubSeq(s, Len(s) \div 2 + 1, Len(s)))

RECURSIVE LStrip(_)
LStrip(s) == IF s # "" /\ IsSpace(Head(s)) THEN LStrip(Tail(s)) ELSE s

RECURSIVE RStrip(_)
RStrip(s) == IF s # "" /\ IsSpace(CharAt(s, Len(s)))
             THEN RStrip(SubSeq(s, 1, Len(s) - 1)) ELSE s

\* str.strip()
Strip(s) == RStrip(LStrip(s))

RECURSIVE LStripQuote(_)
LStripQuote(s) == IF s # "" /\ Head(s) = "\"" THEN LStripQuote(Tail(s)) ELSE s

RECURSIVE RStripQuote(_)
RStripQuote(s) == IF s # "" /\ CharAt(s, Len(s)) = "\""
                  THEN RStripQuote(SubSeq(s, 1, Len(s) - 1)) ELSE s

\* str.strip('"')
StripQuote(s) == RStripQuote(LStripQuote(s))

\* str.startswith
StartsWith(s, p) == Len(s) >= Len(p) /\ SubSeq(s, 1, Len(p)) = p

\* s[n:]
SliceFrom(s, n) == SubSeq(s, n + 1, Len(s))

\* str.find from position i (1-based), 0 when absent
RECURSIVE FindFrom(_, _, _)
FindFrom(s, p, i) == IF i + Len(p) - 1 > Len(s) THEN 0
                     ELSE IF SubSeq(s, i, i + Len(p) - 1) = p THEN i
                     ELSE FindFrom(s, p, i + 1)

Contains(s, p) == FindFrom(s, p, 1) > 0

\* str.replace(old, new), left to right, non-overlapping
RECURSIVE Replace(_, _, _)
Replace(s, old, new) ==
    LET i == FindFrom(s, old, 1)
    IN  IF i = 0 THEN s
        ELSE SubSeq(s, 1, i - 1) \o new
             \o Replace(SliceFrom(s, i + Len(old) - 1), old, new)

\* str.split(":", 1): the parts before and after the first colon
SplitColon(s) ==
    LET i == FindFrom(s, ":", 1)
    IN  IF i = 0 THEN <<s>>
        ELSE <<SubSeq(s, 1, i - 1), SliceFrom(s, i)>>

\* str(n) and hex(n)[2:] for a natural number
RECURSIVE ToBase(_, _)
ToBase(n, digits) ==
    IF n < Len(digits) THEN CharAt(digits, n + 1)
    ELSE ToBase(n \div Len(digits), digits) \o CharAt(digits, (n % Len(digits)) + 1)

Str(n) == ToBase(n, Digits)

Hex(n) == ToBase(n, "0123456789abcdef")

\* ord(c)
OrdTable == [c \in CharsOf(Ascii) |-> IndexIn(c, Ascii) + 31]

Ord(c) == OrdTable[c]

\* chr(b) for 32 <= b <= 126
Chr(b) == CharAt(Ascii, b - 31)

-----------------------------------------------------------------------------
(* hashlib.md5(...).hexdigest(): a 16-bit polynomial checksum, printed as 4  *)
(* lowercase hex digits, stands for the 128-bit MD5 (a deterministic        *)
(* function from strings to fixed-length lowercase hex strings).            *)

\* (a * b) % 65536 for 0 <= a, b < 65536, through products below 2^31
MulMod(a, b) == (((a \div 256) * b % 65536) * 256 + (a % 256) * b) % 65536

\* <<33^n, c1 * 33^(n-1) + ... + cn>> modulo 65536 for the characters c1..cn
\* of a non-empty string
RECURSIVE HashPoly(_)
HashPoly(data) ==
    IF Len(data) = 1 THEN <<33, Ord(data)>>
    ELSE LET l == HashPoly(SubSeq(data, 1, Len(data) \div 2))
             r == HashPoly(SubSeq(data, Len(data) \div 2 + 1, Len(data)))
         IN  <<MulMod(l[1], r[1]), (MulMod(l[2], r[1]) + r[2]) % 65536>>

\* h := (h * 33 + ord(c)) % 65536 over the characters c of data, left to right
HashFold(data, h) ==
    IF data = "" THEN h
    ELSE (MulMod(h, HashPoly(data)[1]) + HashPoly(data)[2]) % 65536

HexDigest(data) ==
    LET h == HashFold(data, 5381)
        x == Hex(h)
    IN  SubSeq("0000", 1, 4 - Len(x)) \o x

\* the helper calc_hexdigest of wsgidav.util
calc_hexdigest(data) == HexDigest(data)

-----------------------------------------------------------------------------
(* base64                                                                  *)

B64Alphabet == "ABCDEFGHIJKLMNOPQRSTUVWXYZabcdefghijklmnopqrstuvwxyz0123456789+/"

\* table_a2b_base64: the 6-bit value of a character of the alphabet
B64Table == [c \in CharsOf(B64Alphabet) |-> IndexIn(c, B64Alphabet) - 1]

\* binascii.a2b_base64 (non-strict): characters outside the alphabet are
\* skipped, a complete pad sequence ends the input, and input that ends inside
\* a quad raises binascii.Error.  The result is [ok, bytes].
RECURSIVE A2bBase64(_, _, _, _, _)
A2bBase64(s, quad_pos, leftchar, pads, out) ==
    IF s = "" THEN [ok |-> quad_pos = 0, bytes |-> out]
    ELSE LET c == Head(s)
             v == IF c \in DOMAIN B64Table THEN B64Table[c] ELSE -1
         IN  IF c = "="
             THEN IF quad_pos >= 2 /\ quad_pos + pads + 1 >= 4
                  THEN [ok |-> TRUE, bytes |-> out]
                  ELSE A2bBase64(Tail(s), quad_pos, leftchar,
                                 IF quad_pos >= 2 THEN pads + 1 ELSE pads, out)
             ELSE IF v < 0
             THEN A2bBase64(Tail(s), quad_pos, leftchar, pads, out)
             ELSE CASE quad_pos = 0 ->
                         A2bBase64(Tail(s), 1, v, 0, out)
                    [] quad_pos = 1 ->
                         A2bBase64(Tail(s), 2, v % 16, 0,
                                   Append(out, (leftchar * 4 + v \div 16) % 256))
                    [] quad_pos = 2 ->
                         A2bBase64(Tail(s), 3, v % 4, 0,
                                   Append(out, (leftchar * 16 + v \div 4) % 256))
                    [] quad_pos = 3 ->
                         A2bBase64(Tail(s), 0, 0, 0,
                                   Append(out, (leftchar * 64 + v) % 256))

\* compat.base64_decodebytes
base64_decodebytes(s) == A2bBase64(s, 0, 0, 0, <<>>)

\* compat.to_native on bytes: str(s, "utf8").  The inputs of the model decode
\* to printable ASCII or contain a byte >= 128 that is no valid UTF-8.
RECURSIVE BytesToStr(_)
BytesToStr(bytes) ==
    IF bytes = <<>> THEN "" ELSE Chr(Head(bytes)) \o BytesToStr(Tail(bytes))

to_native(bytes) ==
    IF \A i \in 1..Len(bytes) : bytes[i] >= 32 /\ bytes[i] <= 126
    THEN [ok |-> TRUE, str |-> BytesToStr(bytes)]
    ELSE [ok |-> FALSE, str |-> ""]

\* binascii.b2a_base64 without the trailing newline, on a str of ASCII
RECURSIVE B2aBase64(_)
B2aBase64(s) ==
    LET b(i) == Ord(CharAt(s, i))
        e(n) == CharAt(B64Alphabet, n + 1)
    IN  IF s = "" THEN ""
        ELSE IF Len(s) = 1
        THEN e(b(1) \div 4) \o e((b(1) % 4) * 16) \o "=="
        ELSE IF Len(s) = 2
        THEN e(b(1) \div 4) \o e((b(1) % 4) * 16 + b(2) \div 16)
             \o e((b(2) % 16) * 4) \o "="
        ELSE e(b(1) \div 4) \o e((b(1) % 4) * 16 + b(2) \div 16)
             \o e((b(2) % 16) * 4 + b(3) \div 64) \o e(b(3) % 64)
             \o B2aBase64(SliceFrom(s, 3))

\* the helper calc_base64 of wsgidav.util
calc_base64(s) == B2aBase64(s)

-----------------------------------------------------------------------------
(* The domain controller (wsgidav.dc): an external collaborator.  The model *)
(* uses one with two shares: "/dav" requires authentication and has the    *)
(* user u with password p, "/pub" is open.  The share "/" knows the same    *)
(* user.  dc_raises names a method of it that raises when called.           *)

DcMethods == {"get_domain_realm", "require_authentication", "is_realm_user",
              "auth_domain_user", "compute_http_digest_a1"}

user_mapping(realm, user_name) ==
    IF realm \in {"/dav", "/"} /\ user_name = "u" THEN "p" ELSE None

get_domain_realm(path_info) ==
    IF StartsWith(path_info, "/pub") THEN "/pub"
    ELSE IF StartsWith(path_info, "/dav") THEN "/dav"
    ELSE "/"

require_authentication(realm) == realm # "/pub"

is_realm_user(realm, user_name) == user_mapping(realm, user_name) # None

auth_domain_user(realm, user_name, password) ==
    /\ user_mapping(realm, user_name) # None
    /\ user_mapping(realm, user_name) = password

\* A1 = MD5(user ":" realm ":" password)
compute_http_digest_a1(realm, user_name) ==
    HexDigest(user_name \o ":" \o realm \o ":"
              \o (IF user_mapping(realm, user_name) = None THEN ""
                  ELSE user_mapping(realm, user_name)))

-----------------------------------------------------------------------------
(* What one call of the middleware did: the bookkeeping of the model.       *)
(* ctx collects, in order, the methods of HTTPAuthenticator entered, the    *)
(* calls made to the domain controller and the lines written to the log.    *)

NewCtx == [handlers |-> <<>>, dc_calls |-> <<>>, log |-> <<>>]

Enter(ctx, name) == [ctx EXCEPT !.handlers = Append(@, name)]

DcCall(ctx, name, args) == [ctx EXCEPT !.dc_calls = Append(@, <<name>> \o args)]

Log(ctx, lines) == [ctx EXCEPT !.log = @ \o lines]

\* return self.next_app(environ, start_response) with the two keys set
Forward(ctx, realm, user_name) ==
    [kind |-> "forward", status |-> None, headers |-> <<>>, body |-> None,
     realm |-> realm, user_name |-> user_name, error |-> None,
     handlers |-> ctx.handlers, dc_calls |-> ctx.dc_calls, log |-> ctx.log]

\* start_response(status, headers); return [body]
Response(ctx, status, headers, body) ==
    [kind |-> "response", status |-> status, headers |-> headers, body |-> body,
     realm |-> None, user_name |-> None, error |-> None,
     handlers |-> ctx.handlers, dc_calls |-> ctx.dc_calls, log |-> ctx.log]

\* an exception leaves __call__
Raise(ctx, error) ==
    [kind |-> "raise", status |-> None, headers |-> <<>>, body |-> None,
     realm |-> None, user_name |-> None, error |-> error,
     handlers |-> ctx.handlers, dc_calls |-> ctx.dc_calls, log |-> ctx.log]

-----------------------------------------------------------------------------
(* HTTPAuthenticator                                                        *)

\* random.getrandbits(32) returns a value in 0..MaxRandBits
MaxRandBits == 1

\* the environ key of the header a deployment configures as trusted
TrustedHeaderName == "HTTP_X_USER"

error_message == "\n        <html><head><title>401 Access not authorized</title></head>\n        <body>\n        <h1>401 Access not authorized</h1>\n        </body>\n        </html>\n        "

\* util.get_rfc1123_time() and str(time.time()): the clock is an input, fixed
get_rfc1123_time == "Thu, 01 Nov 2018 00:00:01 GMT"
timekey == "1541030401.5"

send_basic_auth_response(env, ctx0) ==
    LET ctx == DcCall(Enter(ctx0, "send_basic_auth_response"),
                      "get_domain_realm", <<env["PATH_INFO"]>>)
        realm == get_domain_realm(env["PATH_INFO"])
        wwwauthheaders == "Basic realm=\"" \o realm \o "\""
        body == error_message
    IN  IF dc_raises = "get_domain_realm" THEN Raise(ctx, "get_domain_realm")
        ELSE Response(ctx, "401 Not Authorized",
                      << <<"WWW-Authenticate", wwwauthheaders>>,
                         <<"Content-Type", "text/html">>,
                         <<"Content-Length", Str(Len(body))>>,
                         <<"Date", get_rfc1123_time>> >>,
                      body)

\* randbits is the value of random.getrandbits(32)
send_digest_auth_response(env, ctx0, randbits) ==
    LET ctx == DcCall(Enter(ctx0, "send_digest_auth_response"),
                      "get_domain_realm", <<env["PATH_INFO"]>>)
        realm == get_domain_realm(env["PATH_INFO"])
        serverkey == Hex(randbits)
        etagkey == calc_hexdigest(env["PATH_INFO"])
        nonce_source == timekey \o calc_hexdigest(
                            timekey \o ":" \o etagkey \o ":" \o serverkey)
        nonce == calc_base64(nonce_source)
        wwwauthheaders == "Digest realm=\"" \o realm \o "\", nonce=\"" \o nonce
                          \o "\", algorithm=MD5, qop=\"auth\""
        body == error_message
    IN  IF dc_raises = "get_domain_realm" THEN Raise(ctx, "get_domain_realm")
        ELSE Response(ctx, "401 Not Authorized",
                      << <<"WWW-Authenticate", wwwauthheaders>>,
                         <<"Content-Type", "text/html">>,
                         <<"Content-Length", Str(Len(body))>>,
                         <<"Date", get_rfc1123_time>> >>,
                      body)

auth_basic_auth_request(env, ctx0) ==
    LET ctx1 == DcCall(Enter(ctx0, "auth_basic_auth_request"),
                       "get_domain_realm", <<env["PATH_INFO"]>>)
        realm == get_domain_realm(env["PATH_INFO"])
        auth_header == env["HTTP_AUTHORIZATION"]
        authvalue == Strip(SliceFrom(auth_header, Len("Basic ")))
        decoded == base64_decodebytes(authvalue)
        native == to_native(decoded.bytes)
        parts == SplitColon(native.str)
        user_name == parts[1]
        password == parts[2]
        ctx2 == DcCall(ctx1, "auth_domain_user", <<realm, user_name, password>>)
    IN  IF dc_raises = "get_domain_realm" THEN Raise(ctx1, "get_domain_realm")
        ELSE IF ~decoded.ok THEN Raise(ctx1, "binascii.Error")
        ELSE IF ~native.ok THEN Raise(ctx1, "UnicodeDecodeError")
        ELSE IF Len(parts) # 2 THEN Raise(ctx1, "ValueError")
        ELSE IF dc_raises = "auth_domain_user" THEN Raise(ctx2, "auth_domain_user")
        ELSE IF auth_domain_user(realm, user_name, password)
        THEN Forward(ctx2, realm, user_name)
        ELSE send_basic_auth_response(env, ctx2)

-----------------------------------------------------------------------------
(* The three compiled patterns of __init__ and re's search / findall        *)

\* the last index of the run of \w characters that starts at i
RECURSIVE WordEnd(_, _)
WordEnd(s, i) == IF i < Len(s) /\ IsWordChar(CharAt(s, i + 1))
                 THEN WordEnd(s, i + 1) ELSE i

\* self._header_method.search(s): group 1 of ^([\w]+), None without a match
header_method_search(s) ==
    IF s # "" /\ IsWordChar(Head(s)) THEN SubSeq(s, 1, WordEnd(s, 1)) ELSE None

\* self._header_parser.findall(s) for ([\w]+)=([^,]*), from position pos on:
\* the pairs <<key, value>> of the non-overlapping matches, left to right
RECURSIVE header_parser_findall(_, _)
header_parser_findall(s, pos) ==
    IF pos > Len(s) THEN <<>>
    ELSE IF ~IsWordChar(CharAt(s, pos)) THEN header_parser_findall(s, pos + 1)
    ELSE LET e == WordEnd(s, pos)
             comma == FindFrom(s, ",", e + 2)
         IN  IF e < Len(s) /\ CharAt(s, e + 1) = "=" /\ comma > 0
             THEN << <<SubSeq(s, pos, e), SubSeq(s, e + 2, comma - 1)>> >>
                  \o header_parser_findall(s, comma + 1)
             ELSE header_parser_findall(s, e + 1)

\* self._header_fix_parser.findall(s) for ([\w]+)=("[^"]*,[^"]*"),
RECURSIVE header_fix_parser_findall(_, _)
header_fix_parser_findall(s, pos) ==
    IF pos > Len(s) THEN <<>>
    ELSE IF ~IsWordChar(CharAt(s, pos)) THEN header_fix_parser_findall(s, pos + 1)
    ELSE LET e == WordEnd(s, pos)
             quote == FindFrom(s, "\"", e + 3)
         IN  IF /\ e + 1 < Len(s)
                /\ CharAt(s, e + 1) = "="
                /\ CharAt(s, e + 2) = "\""
                /\ quote > 0
                /\ Contains(SubSeq(s, e + 3, quote - 1), ",")
                /\ quote < Len(s)
                /\ CharAt(s, quote + 1) = ","
             THEN << <<SubSeq(s, pos, e), SubSeq(s, e + 2, quote)>> >>
                  \o header_fix_parser_findall(s, quote + 2)
             ELSE header_fix_parser_findall(s, e + 1)

\* the loop over auth_header_list: later entries overwrite earlier ones
RECURSIVE MakeHeaderDict(_, _)
MakeHeaderDict(auth_header_list, dict) ==
    IF auth_header_list = <<>> THEN dict
    ELSE LET authheaderkey == Head(auth_header_list)[1]
             authheadervalue == StripQuote(Strip(Head(auth_header_list)[2]))
         IN  MakeHeaderDict(Tail(auth_header_list),
                 [k \in DOMAIN dict \cup {authheaderkey} |->
                     IF k = authheaderkey THEN authheadervalue ELSE dict[k]])

EmptyDict == [k \in {} |-> ""]

\* a tokenizer that processes the fallback matches before the primary ones
ParseAuthHeader_FixFirst(auth_headers) ==
    LET auth_header_list == header_parser_findall(auth_headers, 1)
        auth_header_fixlist == header_fix_parser_findall(auth_headers, 1)
    IN  MakeHeaderDict(auth_header_fixlist \o auth_header_list, EmptyDict)

\* lines 332-358: the directives of the Authorization header
ParseAuthHeader(auth_headers) ==
    LET auth_header_list == header_parser_findall(auth_headers, 1)
        auth_header_fixlist == header_fix_parser_findall(auth_headers, 1)
    IN  MakeHeaderDict(auth_header_list \o auth_header_fixlist, EmptyDict)

-----------------------------------------------------------------------------
(* Digest                                                                   *)

md5h(data) == HexDigest(data)

md5kd(secret, data) == md5h(secret \o ":" \o data)

\* a computation that never takes the qop branch
DigestResponse_NoQop(A1, method, uri, nonce, cnonce, qop, nc) ==
    md5kd(A1, nonce \o ":" \o md5h(method \o ":" \o uri))

\* compute_digest_response, given the A1 the domain controller returned
DigestResponse(A1, method, uri, nonce, cnonce, qop, nc) ==
    LET A2 == method \o ":" \o uri
    IN  IF qop # None /\ qop # ""
        THEN md5kd(A1, nonce \o ":" \o nc \o ":" \o cnonce \o ":" \o qop
                       \o ":" \o md5h(A2))
        ELSE md5kd(A1, nonce \o ":" \o md5h(A2))

\* a computation that takes A1 for realm "/" whatever realm it is given
compute_digest_response_RootRealm(realm, user_name, method, uri, nonce, cnonce, qop, nc) ==
    DigestResponse(compute_http_digest_a1("/", user_name),
                   method, uri, nonce, cnonce, qop, nc)

compute_digest_response(realm, user_name, method, uri, nonce, cnonce, qop, nc) ==
    DigestResponse(compute_http_digest_a1(realm, user_name),
                   method, uri, nonce, cnonce, qop, nc)

\* a realm check that compares the two realms as they are written
RealmMismatch_CaseSensitive(realm, dict) ==
    /\ "realm" \in DOMAIN dict
    /\ dict["realm"] # realm
    /\ ~(HOTFIX_WINXP_AcceptRootShareLogin /\ dict["realm"] = "/")

\* lines 396-406: the header's realm is not the resolved one
RealmMismatch(realm, dict) ==
    /\ "realm" \in DOMAIN dict
    /\ Upper(dict["realm"]) # Upper(realm)
    /\ ~(HOTFIX_WINXP_AcceptRootShareLogin /\ dict["realm"] = "/")

\* checks that take any value of qop
QopReasons_AnyValue(dict) ==
    LET req_has_qop == "qop" \in DOMAIN dict
    IN  (IF "cnonce" \notin DOMAIN dict /\ req_has_qop
         THEN <<"Expected 'cnonce' in headers if qop is passed">> ELSE <<>>)
     \o (IF "nc" \notin DOMAIN dict /\ req_has_qop
         THEN <<"Expected 'nc' in headers if qop is passed">> ELSE <<>>)

\* lines 422-448: the reasons the checks of qop, cnonce and nc append
QopReasons(dict) ==
    LET req_has_qop == "qop" \in DOMAIN dict
    IN  (IF req_has_qop /\ Lower(dict["qop"]) # "auth"
         THEN <<"Expected 'qop' == 'auth'">> ELSE <<>>)
     \o (IF "cnonce" \notin DOMAIN dict /\ req_has_qop
         THEN <<"Expected 'cnonce' in headers if qop is passed">> ELSE <<>>)
     \o (IF "nc" \notin DOMAIN dict /\ req_has_qop
         THEN <<"Expected 'nc' in headers if qop is passed">> ELSE <<>>)

\* a check that takes only a nonce found in self._nonce_dict
NonceReasons_StoredOnly(dict) ==
    IF "nonce" \notin DOMAIN dict THEN <<"Expected 'nonce' in headers">>
    ELSE IF dict["nonce"] \notin DOMAIN nonce_dict
    THEN <<"Unknown 'nonce' in headers">>
    ELSE <<>>

\* lines 416-420: the nonce only has to be there
NonceReasons(dict) ==
    IF "nonce" \notin DOMAIN dict THEN <<"Expected 'nonce' in headers">>
    ELSE <<>>

\* checks that find nothing wrong
StructuralReasons_Unchecked(realm, auth_headers, dict, req_username) == <<>>

\* lines 365-454: the checks made before any digest is computed, in the
\* order of the code; the result is invalid_req_reasons
StructuralReasons(realm, auth_headers, dict, req_username) ==
    LET has(k) == k \in DOMAIN dict
    IN  (IF ~StartsWith(Strip(Lower(auth_headers)), "digest")
         THEN <<"HTTP_AUTHORIZATION must start with 'digest': " \o auth_headers>>
         ELSE <<>>)
     \o (IF ~has("username") THEN <<"Missing 'username' in headers">>
         ELSE IF is_realm_user(realm, req_username) = FALSE
         THEN <<"Not a realm-user: '" \o realm \o "'/'" \o req_username \o "'">>
         ELSE <<>>)
     \o (IF RealmMismatch(realm, dict)
         THEN <<"Realm mismatch: '" \o realm \o "'">> ELSE <<>>)
     \o (IF has("algorithm") /\ Upper(dict["algorithm"]) # "MD5"
         THEN <<"Unsupported 'algorithm' in headers">> ELSE <<>>)
     \o NonceReasons(dict)
     \o QopReasons(dict)
     \o (IF ~has("response") THEN <<"Expected 'response' in headers">> ELSE <<>>)

\* lines 510-518
DigestAuthFailed(env, ctx, randbits, realm, req_username, reasons, dict) ==
    send_digest_auth_response(env,
        Log(ctx, <<"Authentication failed for user '" \o req_username
                   \o "', realm '" \o realm \o "'">>
                 \o reasons \o << <<"Headers:", dict>> >>),
        randbits)

auth_digest_auth_request(env, ctx0, randbits) ==
    LET ctx1 == DcCall(Enter(ctx0, "auth_digest_auth_request"),
                       "get_domain_realm", <<env["PATH_INFO"]>>)
        realm == get_domain_realm(env["PATH_INFO"])
        auth_headers == env["HTTP_AUTHORIZATION"] \o ","
        auth_header_dict == ParseAuthHeader(auth_headers)
        has(k) == k \in DOMAIN auth_header_dict
        opt(k) == IF has(k) THEN auth_header_dict[k] ELSE None
        req_username ==
            IF ~has("username") THEN None
            ELSE IF Contains(auth_header_dict["username"], "\\\\")
            THEN Replace(auth_header_dict["username"], "\\\\", "\\")
            ELSE auth_header_dict["username"]
        ctx2 == IF has("username")
                THEN DcCall(ctx1, "is_realm_user", <<realm, req_username>>)
                ELSE ctx1
        reasons == StructuralReasons(realm, auth_headers, auth_header_dict,
                                     req_username)
        req_method == env["REQUEST_METHOD"]
        req_response == opt("response")
        ctx3 == DcCall(ctx2, "compute_http_digest_a1", <<realm, req_username>>)
        required_digest ==
            compute_digest_response(realm, req_username, req_method,
                auth_header_dict["uri"], opt("nonce"), opt("cnonce"),
                opt("qop"), opt("nc"))
        warning_msg == "compute_digest_response('" \o realm \o "', '"
                       \o req_username \o "', ...): " \o required_digest
                       \o " != " \o req_response
        ctx4 == DcCall(Log(ctx3, <<warning_msg>>),
                       "compute_http_digest_a1", <<"/", req_username>>)
        root_digest ==
            compute_digest_response("/", req_username, req_method,
                auth_header_dict["uri"], opt("nonce"), opt("cnonce"),
                opt("qop"), opt("nc"))
    IN  IF dc_raises = "get_domain_realm" THEN Raise(ctx1, "get_domain_realm")
        ELSE IF has("username") /\ dc_raises = "is_realm_user"
        THEN Raise(ctx2, "is_realm_user")
        ELSE IF reasons # <<>>
        THEN DigestAuthFailed(env, ctx2, randbits, realm, req_username,
                              reasons, auth_header_dict)
        \* req_uri is only bound when the header has a uri
        ELSE IF ~has("uri") THEN Raise(ctx2, "UnboundLocalError")
        ELSE IF dc_raises = "compute_http_digest_a1"
        THEN Raise(ctx3, "compute_http_digest_a1")
        ELSE IF required_digest = req_response
        THEN Forward(ctx3, realm, req_username)
        ELSE IF ~HOTFIX_WINXP_AcceptRootShareLogin
        THEN DigestAuthFailed(env, Log(ctx3, <<warning_msg>>), randbits, realm,
                              req_username, <<warning_msg>>, auth_header_dict)
        ELSE IF root_digest = req_response
        THEN Forward(Log(ctx4, <<"auth_digest_auth_request: HOTFIX: accepting '/' login for '"
                                 \o realm \o "'.">>), realm, req_username)
        ELSE DigestAuthFailed(env, ctx4, randbits, realm, req_username,
                              <<warning_msg>>, auth_header_dict)

\* a bypass that does not look at the hotfix flag
force_allow_Unconditional(env) == env["REQUEST_METHOD"] = "OPTIONS"

\* lines 192-195
force_allow(env) ==
    HOTFIX_WIN_AcceptAnonymousOptions /\ env["REQUEST_METHOD"] = "OPTIONS"

\* a trusted header that is honoured although none is configured
TrustedUserName_Unconfigured(env) ==
    IF TrustedHeaderName \in DOMAIN env /\ env[TrustedHeaderName] # ""
    THEN env[TrustedHeaderName]
    ELSE None

\* line 206: the user name a trusted upstream server injected, None without one
TrustedUserName(env) ==
    IF /\ trusted_auth_header # None
       /\ trusted_auth_header # ""
       /\ trusted_auth_header \in DOMAIN env
       /\ env[trusted_auth_header] # ""
    THEN env[trusted_auth_header]
    ELSE None

\* the trusted header consulted before the realm's policy
AnonymousOrTrusted_TrustedFirst(env, realm) ==
    IF TrustedUserName(env) # None THEN TrustedUserName(env)
    ELSE IF force_allow(env) \/ ~require_authentication(realm) THEN ""
    ELSE None

\* lines 197-219: the user_name a request is forwarded with before any
\* credential is looked at, None if credentials are needed
AnonymousOrTrusted(env, realm) ==
    IF force_allow(env) \/ ~require_authentication(realm) THEN ""
    ELSE TrustedUserName(env)

\* lines 222-226
AuthMethod(auth_header) ==
    LET auth_match == header_method_search(auth_header)
    IN  IF auth_match # None THEN Lower(auth_match) ELSE "None"

\* digest verification chosen without asking whether digest is accepted
SelectHandler_DigestUnchecked(auth_method) ==
    IF auth_method = "digest" THEN "auth_digest_auth_request"
    ELSE IF auth_method = "basic" /\ accept_basic THEN "auth_basic_auth_request"
    ELSE IF default_to_digest /\ accept_digest THEN "send_digest_auth_response"
    ELSE IF accept_basic THEN "send_basic_auth_response"
    ELSE "400 Bad Request"

\* the two fallbacks for an unsupported method in the other order
SelectHandler_BasicFirst(auth_method) ==
    IF auth_method = "digest" /\ accept_digest THEN "auth_digest_auth_request"
    ELSE IF auth_method = "digest" /\ accept_basic THEN "send_basic_auth_response"
    ELSE IF auth_method = "basic" /\ accept_basic THEN "auth_basic_auth_request"
    ELSE IF accept_basic THEN "send_basic_auth_response"
    ELSE IF default_to_digest /\ accept_digest THEN "send_digest_auth_response"
    ELSE "400 Bad Request"

\* lines 228-251: what __call__ does with a request that has an Authorization
\* header
SelectHandler(auth_method) ==
    IF auth_method = "digest" /\ accept_digest THEN "auth_digest_auth_request"
    ELSE IF auth_method = "digest" /\ accept_basic THEN "send_basic_auth_response"
    ELSE IF auth_method = "basic" /\ accept_basic THEN "auth_basic_auth_request"
    ELSE IF default_to_digest /\ accept_digest THEN "send_digest_auth_response"
    ELSE IF accept_basic THEN "send_basic_auth_response"
    ELSE "400 Bad Request"

\* a default that also asks whether digest is accepted
DefaultHandler_IfAccepted ==
    IF default_to_digest /\ accept_digest THEN "send_digest_auth_response"
    ELSE "send_basic_auth_response"

\* lines 253-255: what __call__ does with a request that has none
DefaultHandler ==
    IF default_to_digest THEN "send_digest_auth_response"
    ELSE "send_basic_auth_response"

\* lines 241-251
BadRequest(ctx, auth_method) ==
    Response(Log(ctx, <<"HTTPAuthenticator: respond with 400 Bad request; Auth-Method: "
                        \o auth_method>>),
             "400 Bad Request",
             << <<"Content-Length", "0">>, <<"Date", get_rfc1123_time>> >>,
             "")

\* HTTPAuthenticator.__call__; randbits is what random.getrandbits(32) returns
\* if a digest challenge is sent
Call(env, randbits) ==
    LET ctx1 == DcCall(Enter(NewCtx, "__call__"),
                       "get_domain_realm", <<env["PATH_INFO"]>>)
        realm == get_domain_realm(env["PATH_INFO"])
        ctx2 == IF force_allow(env) THEN ctx1
                ELSE DcCall(ctx1, "require_authentication", <<realm>>)
        auth_method == AuthMethod(env["HTTP_AUTHORIZATION"])
        handler == IF "HTTP_AUTHORIZATION" \in DOMAIN env
                   THEN SelectHandler(auth_method)
                   ELSE DefaultHandler
    IN  IF dc_raises = "get_domain_realm" THEN Raise(ctx1, "get_domain_realm")
        ELSE IF ~force_allow(env) /\ dc_raises = "require_authentication"
        THEN Raise(ctx2, "require_authentication")
        ELSE IF AnonymousOrTrusted(env, realm) # None
        THEN Forward(ctx2, realm, AnonymousOrTrusted(env, realm))
        ELSE CASE handler = "auth_digest_auth_request" ->
                    auth_digest_auth_request(env, ctx2, randbits)
               [] handler = "auth_basic_auth_request" ->
                    auth_basic_auth_request(env, ctx2)
               [] handler = "send_digest_auth_response" ->
                    send_digest_auth_response(env, ctx2, randbits)
               [] handler = "send_basic_auth_response" ->
                    send_basic_auth_response(env, ctx2)
               [] handler = "400 Bad Request" ->
                    BadRequest(ctx2, auth_method)

-----------------------------------------------------------------------------
(* Requests: what a client and an upstream proxy put into environ           *)

\* a client's Digest credentials: the directives it sends (None: not sent) and
\* how it computed response ("ok": from the realm it was challenged with,
\* "root": from realm "/", "bad": not from the password)
BaseProfile ==
    [username |-> "u", realm |-> "/dav", uri |-> "/dav/f", nonce |-> "n1",
     algorithm |-> "MD5", qop |-> "auth", nc |-> "00000001", cnonce |-> "c1",
     response |-> "ok"]

LegacyProfile == [BaseProfile EXCEPT !.qop = None, !.nc = None, !.cnonce = None]

CoreProfiles ==
    { BaseProfile,
      [BaseProfile EXCEPT !.uri = None],
      [BaseProfile EXCEPT !.response = "bad"] }

Profiles ==
    CoreProfiles
    \cup { [BaseProfile EXCEPT !.username = v] : v \in {None, "x"} }
    \cup { [BaseProfile EXCEPT !.realm = v] : v \in {None, "/DAV", "/", "/other"} }
    \cup { [BaseProfile EXCEPT !.uri = v] : v \in {"a,b.txt"} }
    \cup { [BaseProfile EXCEPT !.nonce = v] : v \in {None, "zz"} }
    \cup { [BaseProfile EXCEPT !.algorithm = v] : v \in {None, "md5", "SHA"} }
    \cup { [BaseProfile EXCEPT !.qop = v] : v \in {None, "AUTH", "auth-int", ""} }
    \cup { [BaseProfile EXCEPT !.nc = None], [BaseProfile EXCEPT !.cnonce = None] }
    \cup { [BaseProfile EXCEPT !.response = v] : v \in {None, "root"} }
    \cup { [LegacyProfile EXCEPT !.response = v] : v \in {"ok", "bad", "root"} }
    \cup { [LegacyProfile EXCEPT !.uri = None],
           [BaseProfile EXCEPT !.uri = None, !.response = "bad"],
           [BaseProfile EXCEPT !.uri = None, !.username = "x"],
           [BaseProfile EXCEPT !.realm = "/", !.response = "root"],
           [BaseProfile EXCEPT !.realm = "/other", !.response = "root"] }

\* RFC 2617 request-digest, as the client computes it
ClientResponse(p, method, password, realm) ==
    LET nn(v) == IF v = None THEN "" ELSE v
        HA1 == HexDigest(nn(p.username) \o ":" \o realm \o ":" \o password)
        HA2 == HexDigest(method \o ":" \o nn(p.uri))
    IN  IF p.qop \in {None, ""}
        THEN HexDigest(HA1 \o ":" \o nn(p.nonce) \o ":" \o HA2)
        ELSE HexDigest(HA1 \o ":" \o nn(p.nonce) \o ":" \o nn(p.nc) \o ":"
                       \o nn(p.cnonce) \o ":" \o p.qop \o ":" \o HA2)

RECURSIVE Join(_)
Join(parts) == IF parts = <<>> THEN ""
               ELSE IF Len(parts) = 1 THEN parts[1]
               ELSE parts[1] \o ", " \o Join(Tail(parts))

\* the Authorization header a client with credentials p sends for a request
DigestHeader(token, p, method) ==
    LET quoted(k, v) == IF v = None THEN <<>> ELSE <<k \o "=\"" \o v \o "\"">>
        plain(k, v) == IF v = None THEN <<>> ELSE <<k \o "=" \o v>>
        response == CASE p.response = None -> None
                      [] p.response = "ok" -> ClientResponse(p, method, "p", "/dav")
                      [] p.response = "root" -> ClientResponse(p, method, "p", "/")
                      [] p.response = "bad" -> ClientResponse(p, method, "q", "/dav")
    IN  token \o " " \o Join(quoted("username", p.username)
                            \o quoted("realm", p.realm)
                            \o quoted("nonce", p.nonce)
                            \o quoted("uri", p.uri)
                            \o plain("algorithm", p.algorithm)
                            \o quoted("response", response)
                            \o plain("qop", p.qop)
                            \o plain("nc", p.nc)
                            \o quoted("cnonce", p.cnonce))

\* "u:p", "u:q", "upp", "u:p:q", a truncated quad, the byte 0xFF, nothing
BasicPayloads == {"dTpw", "dTpx", "dXBw", "dTpwOnE=", "dTp", "/w==", ""}

CoreAuthorizations(method) ==
    { DigestHeader("Digest", p, method) : p \in CoreProfiles }
    \cup {"Basic dTpw", "Basic dTpx", "Basic dTp", "Bearer abc"}

Authorizations(method) ==
    CoreAuthorizations(method)
    \cup { DigestHeader("Digest", p, method) : p \in Profiles }
    \cup { DigestHeader("digest", BaseProfile, method),
           DigestHeader("DIGEST", BaseProfile, method),
           DigestHeader("Digestx", BaseProfile, method),
           DigestHeader(" Digest", BaseProfile, method) }
    \cup { "Basic " \o b : b \in BasicPayloads }
    \cup { "basic dTpw", "BASIC dTpw", "Basic", "Basic  dTpw ", "", "Negotiate" }

Methods == {"GET", "OPTIONS"}

Paths == {"/dav/f", "/pub/f"}

\* environ: auth is the Authorization header and trusted the value of the
\* header TrustedHeaderName, None when the request has no such header
MakeEnviron(method, path, trusted, auth) ==
    LET keys == {"REQUEST_METHOD", "PATH_INFO"}
                \cup (IF trusted = None THEN {} ELSE {TrustedHeaderName})
                \cup (IF auth = None THEN {} ELSE {"HTTP_AUTHORIZATION"})
    IN  [k \in keys |-> CASE k = "REQUEST_METHOD" -> method
                          [] k = "PATH_INFO" -> path
                          [] k = TrustedHeaderName -> trusted
                          [] k = "HTTP_AUTHORIZATION" -> auth]

Environs ==
    { MakeEnviron(m, p, t, a) :
        m \in Methods, p \in Paths, t \in {None, "", "bob"},
        a \in {None} \cup UNION { CoreAuthorizations(mm) : mm \in Methods } }
    \cup UNION { { MakeEnviron(m, "/dav/f", None, a) : a \in Authorizations(m) }
                 : m \in Methods }

-----------------------------------------------------------------------------
(* The state machine                                                        *)

Init ==
    /\ phase = "new"
    /\ config \in [accept_basic : BOOLEAN, accept_digest : BOOLEAN,
                   default_to_digest : BOOLEAN,
                   trusted_auth_header : {None, TrustedHeaderName}]
    /\ supports_digest \in BOOLEAN
    /\ dc_raises \in {None} \cup DcMethods
    /\ HOTFIX_WINXP_AcceptRootShareLogin \in BOOLEAN
    /\ HOTFIX_WIN_AcceptAnonymousOptions \in BOOLEAN
    /\ accept_basic = None
    /\ accept_digest = None
    /\ default_to_digest = None
    /\ trusted_auth_header = None
    /\ nonce_dict = None
    /\ environ = None
    /\ result = None
    /\ inflight = <<>>
    /\ issued = {}
    /\ accepted = {}

\* a constructor that only refuses a plain authority when basic is disabled
Construct_BasicDisabledOnly ==
    /\ phase = "new"
    /\ accept_basic' = config.accept_basic
    /\ accept_digest' = config.accept_digest
    /\ default_to_digest' = config.default_to_digest
    /\ trusted_auth_header' = config.trusted_auth_header
    /\ IF ~supports_digest /\ ~config.accept_basic
       THEN /\ phase' = "config_error"
            /\ UNCHANGED nonce_dict
       ELSE /\ phase' = "ready"
            /\ nonce_dict' = EmptyDict
    /\ UNCHANGED <<config, supports_digest, dc_raises, environ, result,
                   HOTFIX_WINXP_AcceptRootShareLogin,
                   HOTFIX_WIN_AcceptAnonymousOptions,
                   inflight, issued, accepted>>

\* a constructor that does not ask the authority whether it supports digest
Construct_Unchecked ==
    /\ phase = "new"
    /\ accept_basic' = config.accept_basic
    /\ accept_digest' = config.accept_digest
    /\ default_to_digest' = config.default_to_digest
    /\ trusted_auth_header' = config.trusted_auth_header
    /\ phase' = "ready"
    /\ nonce_dict' = EmptyDict
    /\ UNCHANGED <<config, supports_digest, dc_raises, environ, result,
                   HOTFIX_WINXP_AcceptRootShareLogin,
                   HOTFIX_WIN_AcceptAnonymousOptions,
                   inflight, issued, accepted>>

\* HTTPAuthenticator.__init__
Construct ==
    /\ phase = "new"
    /\ accept_basic' = config.accept_basic
    /\ accept_digest' = config.accept_digest
    /\ default_to_digest' = config.default_to_digest
    /\ trusted_auth_header' = config.trusted_auth_header
    /\ IF ~supports_digest /\ (config.accept_digest \/ config.default_to_digest
                               \/ ~config.accept_basic)
       THEN /\ phase' = "config_error"
            /\ UNCHANGED nonce_dict
       ELSE /\ phase' = "ready"
            /\ nonce_dict' = EmptyDict
    /\ UNCHANGED <<config, supports_digest, dc_raises, environ, result,
                   HOTFIX_WINXP_AcceptRootShareLogin,
                   HOTFIX_WIN_AcceptAnonymousOptions,
                   inflight, issued, accepted>>

\* the server calls the middleware with a request
Request ==
    /\ phase = "ready"
    /\ \E env \in Environs, randbits \in 0..MaxRandBits :
          /\ environ' = env
          /\ result' = Call(env, randbits)
    /\ phase' = "responded"
    /\ UNCHANGED <<config, accept_basic, accept_digest, default_to_digest,
                   trusted_auth_header, nonce_dict, supports_digest, dc_raises,
                   HOTFIX_WINXP_AcceptRootShareLogin,
                   HOTFIX_WIN_AcceptAnonymousOptions,
                   inflight, issued, accepted>>

\* the request is over: environ and the response are discarded
Finish ==
    /\ phase = "responded"
    /\ phase' = "ready"
    /\ environ' = None
    /\ result' = None
    /\ UNCHANGED <<config, accept_basic, accept_digest, default_to_digest,
                   trusted_auth_header, nonce_dict, supports_digest, dc_raises,
                   HOTFIX_WINXP_AcceptRootShareLogin,
                   HOTFIX_WIN_AcceptAnonymousOptions,
                   inflight, issued, accepted>>

Next == Construct \/ Request \/ Finish

Spec == Init /\ [][Next]_vars

-----------------------------------------------------------------------------
(* Vocabulary of the properties: the request in environ and what result    *)
(* says was done with it                                                    *)

Responded == phase = "responded"

HasHeader(k) == k \in DOMAIN environ

HasAuthorization == HasHeader("HTTP_AUTHORIZATION")

ResolvedRealm == get_domain_realm(environ["PATH_INFO"])

\* the authority resolved the realm and answered requiresAuth with b
RequiresAuthAnswer(b) ==
    /\ Responded
    /\ dc_raises \notin {"get_domain_realm", "require_authentication"}
    /\ require_authentication(ResolvedRealm) = b

OptionsBypass ==
    HOTFIX_WIN_AcceptAnonymousOptions /\ environ["REQUEST_METHOD"] = "OPTIONS"

TrustedHeaderPresent ==
    trusted_auth_header # None /\ HasHeader(trusted_auth_header)

TrustedValuePresent ==
    TrustedHeaderPresent /\ environ[trusted_auth_header] # ""

\* authentication is required, and neither bypass applies
MustAuthenticate ==
    RequiresAuthAnswer(TRUE) /\ ~OptionsBypass /\ ~TrustedValuePresent

Forwarded == result.kind = "forward"

Raised == result.kind = "raise"

Status(code) == result.kind = "response" /\ result.status = code

Challenge(scheme) ==
    /\ Status("401 Not Authorized")
    /\ \E i \in DOMAIN result.headers :
          /\ result.headers[i][1] = "WWW-Authenticate"
          /\ StartsWith(result.headers[i][2], scheme \o " realm=\"")

BasicChallenge == Challenge("Basic")

DigestChallenge == Challenge("Digest")

Rejected400 == Status("400 Bad Request")

Ran(handler) == \E i \in DOMAIN result.handlers : result.handlers[i] = handler

CalledDc(method) == \E i \in DOMAIN result.dc_calls : result.dc_calls[i][1] = method

\* the first word of the Authorization header, lowercased: its longest prefix
\* of letters, digits and underscores
MethodToken ==
    LET h == environ["HTTP_AUTHORIZATION"]
        n == CHOOSE k \in 0..Len(h) :
                /\ \A i \in 1..k : IsWordChar(CharAt(h, i))
                /\ k < Len(h) => ~IsWordChar(CharAt(h, k + 1))
    IN  Lower(SubSeq(h, 1, n))

\* the directives of the Authorization header
Directives == ParseAuthHeader(environ["HTTP_AUTHORIZATION"] \o ",")

DirectiveUser == Replace(Directives["username"], "\\\\", "\\")

\* the checklist of the Scheme Validator
StructurallyValid ==
    LET d == Directives
        has(k) == k \in DOMAIN d
    IN  /\ has("username")
        /\ is_realm_user(ResolvedRealm, DirectiveUser)
        /\ has("realm") =>
              \/ Upper(d["realm"]) = Upper(ResolvedRealm)
              \/ d["realm"] = "/" /\ HOTFIX_WINXP_AcceptRootShareLogin
        /\ has("algorithm") => Upper(d["algorithm"]) = "MD5"
        /\ has("uri")
        /\ has("nonce")
        /\ has("qop") => Lower(d["qop"]) = "auth" /\ has("cnonce") /\ has("nc")
        /\ has("response")

\* the digest of section 4.3 for the request's directives and method
ExpectedDigest(realm) ==
    LET d == Directives
        A1 == compute_http_digest_a1(realm, DirectiveUser)
        HA2 == HexDigest(environ["REQUEST_METHOD"] \o ":" \o d["uri"])
    IN  IF "qop" \in DOMAIN d
        THEN HexDigest(A1 \o ":" \o d["nonce"] \o ":" \o d["nc"] \o ":"
                       \o d["cnonce"] \o ":" \o d["qop"] \o ":" \o HA2)
        ELSE HexDigest(A1 \o ":" \o d["nonce"] \o ":" \o HA2)

DigestVerified ==
    /\ HasAuthorization
    /\ StructurallyValid
    /\ \/ Directives["response"] = ExpectedDigest(ResolvedRealm)
       \/ /\ HOTFIX_WINXP_AcceptRootShareLogin
          /\ Directives["response"] = ExpectedDigest("/")

\* authenticate(resolved realm, user, password) was called and returned true
BasicAuthenticated ==
    \E i \in DOMAIN result.dc_calls :
       LET c == result.dc_calls[i]
       IN  /\ c[1] = "auth_domain_user"
           /\ c[2] = ResolvedRealm
           /\ dc_raises # "auth_domain_user"
           /\ auth_domain_user(c[2], c[3], c[4])

\* what the client and the protected application see of a request
Outcome(r) == <<r.kind, r.status, r.headers, r.body, r.realm, r.user_name>>

-----------------------------------------------------------------------------
(* C1: a request that must authenticate is forwarded only if Basic          *)
(* authenticate returned true or the Digest checks passed and the response  *)
(* equals the digest for the resolved realm (or, with the root-share        *)
(* exception, for "/"); without an Authorization header it is never         *)
(* forwarded; every other outcome is a 401 challenge or a 400.  (Stated    *)
(* for an authority all of whose methods answer.)                           *)
C1_ForwardOnlyVerifiedElseChallenge ==
    MustAuthenticate /\ dc_raises = None =>
        /\ Forwarded =>
              \/ Ran("auth_basic_auth_request") /\ BasicAuthenticated
              \/ Ran("auth_digest_auth_request") /\ DigestVerified
        /\ ~HasAuthorization => ~Forwarded
        /\ ~Forwarded => BasicChallenge \/ DigestChallenge \/ Rejected400

(* C2: with an Authorization header, the gate dispatches on the lowercased  *)
(* first word: digest runs Digest verification if digest is accepted, is    *)
(* downgraded to a Basic challenge if only basic is accepted; basic runs    *)
(* Basic verification if basic is accepted.                                 *)
C2_DispatchOnMethodToken ==
    MustAuthenticate /\ HasAuthorization =>
        /\ MethodToken = "digest" /\ accept_digest =>
              Ran("auth_digest_auth_request")
        /\ MethodToken = "digest" /\ ~accept_digest /\ accept_basic =>
              /\ BasicChallenge
              /\ ~DigestChallenge
              /\ ~Rejected400
              /\ result.handlers = <<"__call__", "send_basic_auth_response">>
        /\ MethodToken = "basic" /\ accept_basic =>
              Ran("auth_basic_auth_request")

C2_Witness ==
    /\ MustAuthenticate /\ HasAuthorization
    /\ MethodToken = "digest" /\ ~accept_digest /\ accept_basic
    /\ default_to_digest
    /\ BasicChallenge

\* the method token is served by no accepted scheme
UnservedToken ==
    \/ MethodToken \notin {"digest", "basic"}
    \/ MethodToken = "basic" /\ ~accept_basic
    \/ MethodToken = "digest" /\ ~accept_digest /\ ~accept_basic

(* C3: an unserved method token gets a Digest challenge if digest is the    *)
(* accepted default, else a Basic challenge if basic is accepted, else a    *)
(* 400 with empty body and Content-Length 0; a 400 is produced in no other  *)
(* situation.                                                               *)
C3_UnsupportedMethodFallback ==
    /\ MustAuthenticate /\ HasAuthorization /\ UnservedToken =>
          IF default_to_digest /\ accept_digest
          THEN DigestChallenge
               /\ result.handlers = <<"__call__", "send_digest_auth_response">>
          ELSE IF accept_basic
          THEN BasicChallenge
               /\ result.handlers = <<"__call__", "send_basic_auth_response">>
          ELSE /\ Rejected400
               /\ result.body = ""
               /\ \E i \in DOMAIN result.headers :
                     result.headers[i] = <<"Content-Length", "0">>
    /\ Responded /\ Rejected400 =>
          /\ MustAuthenticate /\ HasAuthorization /\ UnservedToken
          /\ ~(default_to_digest /\ accept_digest)
          /\ ~accept_basic

C3_Witness ==
    /\ MustAuthenticate /\ HasAuthorization
    /\ MethodToken = "digest" /\ ~accept_digest /\ ~accept_basic
    /\ Rejected400

(* C4: a request that must authenticate and has no Authorization header     *)
(* gets a Digest challenge if default_to_digest, else a Basic challenge;    *)
(* it is never forwarded and never answered with 400.                       *)
C4_NoHeaderDefaultChallenge ==
    MustAuthenticate /\ ~HasAuthorization =>
        /\ default_to_digest => DigestChallenge /\ ~BasicChallenge
        /\ ~default_to_digest => BasicChallenge /\ ~DigestChallenge
        /\ ~Forwarded
        /\ ~Rejected400

C4_Witness ==
    /\ MustAuthenticate /\ ~HasAuthorization
    /\ default_to_digest /\ ~accept_digest
    /\ DigestChallenge

(* C5: when the authority says authentication is not required, the request  *)
(* is forwarded with the resolved realm and an empty user_name, whatever    *)
(* the Authorization and trusted headers are.                               *)
C5_NotRequiredForwardsAnonymous ==
    RequiresAuthAnswer(FALSE) =>
        /\ Forwarded
        /\ result.realm = ResolvedRealm
        /\ result.user_name = ""
        /\ result.headers = <<>>
        /\ result.handlers = <<"__call__">>

C5_Witness ==
    /\ RequiresAuthAnswer(FALSE)
    /\ TrustedValuePresent
    /\ HasAuthorization
    /\ Forwarded /\ result.user_name = ""

\* the request was forwarded by the trusted-header rule
TrustedForward(user_name) ==
    /\ Forwarded
    /\ result.user_name = user_name
    /\ result.realm = ResolvedRealm
    /\ result.handlers = <<"__call__">>
    /\ \A i \in DOMAIN result.dc_calls :
          result.dc_calls[i][1] \in {"get_domain_realm", "require_authentication"}

\* without a configured trusted header, only verified credentials forward
NoBypassUnconfigured ==
    RequiresAuthAnswer(TRUE) /\ ~OptionsBypass /\ trusted_auth_header = None
    /\ Forwarded =>
        Ran("auth_basic_auth_request") \/ Ran("auth_digest_auth_request")

(* C6 as stated: when authentication is required and the configured         *)
(* trusted header is present in the request, the request is forwarded with  *)
(* the header's value as user_name and without any credential call.         *)
C6_TrustedHeaderPresentForwards ==
    /\ RequiresAuthAnswer(TRUE) /\ ~OptionsBypass /\ TrustedHeaderPresent =>
          TrustedForward(environ[trusted_auth_header])
    /\ NoBypassUnconfigured

(* C6: when authentication is required, the anonymous-OPTIONS bypass does   *)
(* not apply and the configured trusted header is present with a non-empty  *)
(* value, the request is forwarded with that value as user_name and the     *)
(* resolved realm, without calling authenticate, isRealmUser or             *)
(* credentialHash; with no trusted header configured no header causes it.   *)
C6_TrustedHeaderValueForwards ==
    /\ RequiresAuthAnswer(TRUE) /\ ~OptionsBypass /\ TrustedValuePresent =>
          TrustedForward(environ[trusted_auth_header])
    /\ NoBypassUnconfigured

C6_Witness ==
    /\ RequiresAuthAnswer(TRUE) /\ ~OptionsBypass /\ TrustedValuePresent
    /\ HasAuthorization /\ ~accept_basic /\ ~accept_digest
    /\ TrustedForward("bob")

\* the request in environ, sent with another method
WithMethod(method) == [environ EXCEPT !["REQUEST_METHOD"] = method]

SameOutcomeAsOtherMethods ==
    \A method \in Methods \ {"OPTIONS"} :
       \E randbits \in 0..MaxRandBits :
          Outcome(result) = Outcome(Call(WithMethod(method), randbits))

OptionsForwardedAnonymous ==
    /\ Responded
    /\ HOTFIX_WIN_AcceptAnonymousOptions
    /\ dc_raises # "get_domain_realm"
    /\ environ["REQUEST_METHOD"] = "OPTIONS"
    => Forwarded /\ result.user_name = "" /\ result.realm = ResolvedRealm

OptionsRequestUnflagged ==
    /\ Responded
    /\ ~HOTFIX_WIN_AcceptAnonymousOptions
    /\ environ["REQUEST_METHOD"] = "OPTIONS"

(* C7 as stated: with the flag enabled every OPTIONS request is forwarded   *)
(* with empty user_name; with the flag disabled an OPTIONS request gets     *)
(* exactly the outcome of any other method with otherwise identical inputs. *)
C7_OptionsSameAsAnyMethod ==
    /\ OptionsForwardedAnonymous
    /\ OptionsRequestUnflagged => SameOutcomeAsOtherMethods

(* C7: with the flag enabled every OPTIONS request whose realm resolves is  *)
(* forwarded with empty user_name; with the flag disabled an OPTIONS        *)
(* request that does not reach Digest verification gets exactly the outcome *)
(* of any other method with otherwise identical inputs.                     *)
C7_OptionsSameUnlessDigestVerified ==
    /\ OptionsForwardedAnonymous
    /\ OptionsRequestUnflagged /\ ~Ran("auth_digest_auth_request") =>
          SameOutcomeAsOtherMethods

C7_Witness ==
    /\ Responded
    /\ HOTFIX_WIN_AcceptAnonymousOptions
    /\ environ["REQUEST_METHOD"] = "OPTIONS"
    /\ RequiresAuthAnswer(TRUE)
    /\ TrustedValuePresent
    /\ HasAuthorization
    /\ Forwarded /\ result.user_name = ""

(* C8: a Digest Authorization header without the uri directive ends in a    *)
(* fresh 401 Digest challenge: not forwarded, no unhandled fault.           *)
C8_MissingUriChallenged ==
    /\ Responded
    /\ dc_raises = None
    /\ Ran("auth_digest_auth_request")
    /\ "uri" \notin DOMAIN Directives
    => DigestChallenge /\ ~Forwarded /\ ~Raised

(* C9: in Basic verification a decode failure and a credential mismatch     *)
(* both end in the same re-issued 401 Basic challenge: never forwarded,     *)
(* no fault.                                                                *)
C9_BasicFailureChallenged ==
    /\ Responded
    /\ dc_raises = None
    /\ Ran("auth_basic_auth_request")
    /\ ~BasicAuthenticated
    => /\ BasicChallenge
       /\ ~Raised
       /\ Outcome(result) = Outcome(send_basic_auth_response(environ, NewCtx))

(* C10: if a call into the Identity Authority fails, the request ends with  *)
(* a 401 challenge: the failure does not leave the gate and the request is  *)
(* not forwarded.                                                           *)
C10_AuthorityFailureChallenged ==
    Responded /\ dc_raises # None /\ CalledDc(dc_raises) =>
        /\ BasicChallenge \/ DigestChallenge
        /\ ~Raised
        /\ ~Forwarded

-----------------------------------------------------------------------------
(* Digest verification: what the handler did with the request in environ   *)

RanDigest == Responded /\ dc_raises = None /\ Ran("auth_digest_auth_request")

\* the diagnostic lines of a rejected request: the log of lines 510-518
\* without the dump of the directives that closes it
LogLines == { result.log[i] : i \in 1..(Len(result.log) - 1) }

\* the text the client receives: status, header values and body
ResponseTexts ==
    {result.status, result.body}
    \cup { result.headers[i][2] : i \in DOMAIN result.headers }

\* the challenge send_digest_auth_response builds from the path alone
FreshDigestChallenges ==
    { Outcome(send_digest_auth_response(environ, NewCtx, randbits)) :
        randbits \in 0..MaxRandBits }

(* C11: every failed Digest verification, whichever check failed, ends in   *)
(* a 401 with a fresh Digest challenge that is a function of the path and   *)
(* the fresh nonce only, and no diagnostic reason appears in the status,    *)
(* headers or body.                                                         *)
C11_FailedDigestIndistinguishable ==
    RanDigest /\ ~DigestVerified =>
        /\ DigestChallenge
        /\ Outcome(result) \in FreshDigestChallenges
        /\ \A line \in LogLines : \A text \in ResponseTexts :
              ~Contains(text, line)

\* the directive named response
DirectiveResponse == Directives["response"]

(* C12: a structurally valid Digest request whose response is not the       *)
(* digest for the resolved realm but is the digest for realm "/" is         *)
(* forwarded when the root-share exception is enabled and gets a 401        *)
(* Digest challenge when it is disabled; a response that is neither digest  *)
(* always gets the 401 Digest challenge.                                    *)
C12_RootShareException ==
    /\ RanDigest
    /\ StructurallyValid
    /\ DirectiveResponse # ExpectedDigest(ResolvedRealm)
    => IF DirectiveResponse = ExpectedDigest("/")
       THEN IF HOTFIX_WINXP_AcceptRootShareLogin
            THEN /\ Forwarded
                 /\ result.realm = ResolvedRealm
                 /\ result.user_name = DirectiveUser
            ELSE DigestChallenge /\ ~Forwarded
       ELSE DigestChallenge /\ ~Forwarded

C12_Witness ==
    /\ RanDigest
    /\ StructurallyValid
    /\ DirectiveResponse # ExpectedDigest(ResolvedRealm)
    /\ DirectiveResponse = ExpectedDigest("/")
    /\ HOTFIX_WINXP_AcceptRootShareLogin
    /\ Forwarded

\* the directive k of the header, None when the header does not have it
Directive(k) == IF k \in DOMAIN Directives THEN Directives[k] ELSE None

\* the line logged when the digest computed first is not the response
MismatchLine(realm, digest) ==
    "compute_digest_response('" \o realm \o "', '" \o DirectiveUser
    \o "', ...): " \o digest \o " != " \o DirectiveResponse

\* values of nc and cnonce a request may carry
NonceCounts == {None, "00000001", "00000002"}
ClientNonces == {None, "c1", "c2"}

(* C14: the digest computed for a request is MD5hex(A1:nonce:nc:cnonce:qop: *)
(* HA2) if qop is set and MD5hex(A1:nonce:HA2) otherwise, with A1 the       *)
(* credential hash of (realm, username) and HA2 = MD5hex(method:uri); it    *)
(* is a function of these inputs and, without qop, the same for every nc    *)
(* and cnonce.                                                              *)
C14_DigestFormula ==
    RanDigest /\ StructurallyValid =>
        LET realm == ResolvedRealm
            method == environ["REQUEST_METHOD"]
            user == DirectiveUser
            uri == Directive("uri")
            nonce == Directive("nonce")
            expected == ExpectedDigest(realm)
            unqualified ==
                HexDigest(compute_http_digest_a1(realm, user) \o ":" \o nonce
                          \o ":" \o HexDigest(method \o ":" \o uri))
        IN  /\ compute_digest_response(realm, user, method, uri, nonce,
                   Directive("cnonce"), Directive("qop"), Directive("nc"))
               = expected
            /\ IF DirectiveResponse = expected
               THEN Forwarded /\ result.log = <<>>
               ELSE /\ result.log # <<>>
                    /\ result.log[1] = MismatchLine(realm, expected)
            /\ \A nc \in NonceCounts, cnonce \in ClientNonces :
                  compute_digest_response(realm, user, method, uri, nonce,
                                          cnonce, None, nc) = unqualified

C14_Witness ==
    /\ RanDigest
    /\ StructurallyValid
    /\ "qop" \notin DOMAIN Directives
    /\ "nc" \in DOMAIN Directives
    /\ "cnonce" \in DOMAIN Directives
    /\ DirectiveResponse = ExpectedDigest(ResolvedRealm)
    /\ Forwarded

\* the keys of a list of matches, and the value of the last match of key k
MatchKeys(matches) == { matches[i][1] : i \in DOMAIN matches }

LastMatch(matches, k) ==
    LET last == CHOOSE i \in DOMAIN matches :
                    /\ matches[i][1] = k
                    /\ \A j \in DOMAIN matches : matches[j][1] = k => j <= i
    IN  StripQuote(Strip(matches[last][2]))

(* C15: the directive map holds, for every key the fallback pass matched,   *)
(* the stripped value of its fallback match, and for every other key the    *)
(* stripped value of its primary match; so a header with uri="a,b.txt"      *)
(* yields the uri a,b.txt, and the request is forwarded when its            *)
(* credentials are otherwise valid.                                         *)
C15_FallbackMatchWins ==
    RanDigest =>
        LET auth_headers == environ["HTTP_AUTHORIZATION"] \o ","
            primary == header_parser_findall(auth_headers, 1)
            fallback == header_fix_parser_findall(auth_headers, 1)
            dict == ParseAuthHeader(auth_headers)
        IN  /\ DOMAIN dict = MatchKeys(primary) \cup MatchKeys(fallback)
            /\ \A k \in MatchKeys(fallback) : dict[k] = LastMatch(fallback, k)
            /\ \A k \in MatchKeys(primary) \ MatchKeys(fallback) :
                  dict[k] = LastMatch(primary, k)
            /\ Contains(auth_headers, "uri=\"a,b.txt\",") =>
                  /\ dict["uri"] = "a,b.txt"
                  /\ (StructurallyValid
                      /\ dict["response"] = ExpectedDigest(ResolvedRealm))
                     => Forwarded

C15_Witness ==
    /\ RanDigest
    /\ LET auth_headers == environ["HTTP_AUTHORIZATION"] \o ","
       IN  /\ "uri" \in MatchKeys(header_parser_findall(auth_headers, 1))
           /\ "uri" \in MatchKeys(header_fix_parser_findall(auth_headers, 1))
           /\ LastMatch(header_parser_findall(auth_headers, 1), "uri") = "a"
    /\ Directives["uri"] = "a,b.txt"
    /\ Forwarded

\* __init__ has run
Constructed == phase # "new"

\* __init__ raised RuntimeError
ConstructionFailed == phase = "config_error"

(* C16: with an authority that does not support digest, construction fails  *)
(* if accept_digest or default_to_digest is true or accept_basic is false,  *)
(* and succeeds only for accept_basic=true, accept_digest=false,            *)
(* default_to_digest=false; with an authority that supports digest it       *)
(* succeeds for every combination of the three flags.                       *)
C16_ConstructionFailsFast ==
    Constructed =>
        /\ (~supports_digest
            /\ (config.accept_digest \/ config.default_to_digest
                \/ ~config.accept_basic))
           => ConstructionFailed
        /\ (~supports_digest /\ ~ConstructionFailed)
           <=> (/\ ~supports_digest
                /\ config.accept_basic
                /\ ~config.accept_digest
                /\ ~config.default_to_digest)
        /\ supports_digest => ~ConstructionFailed

C16_Witness ==
    /\ ConstructionFailed
    /\ ~supports_digest
    /\ config.accept_basic
    /\ ~config.accept_digest
    /\ config.default_to_digest

\* the reason line r was logged for the rejected request
ReasonLogged(r) == r \in LogLines

RealmReason == "Realm mismatch: '" \o ResolvedRealm \o "'"

\* the header has a realm directive that is not the resolved realm up to case
RealmDiffers ==
    /\ "realm" \in DOMAIN Directives
    /\ Lower(Directives["realm"]) # Lower(ResolvedRealm)

RootRealmExcepted ==
    HOTFIX_WINXP_AcceptRootShareLogin /\ Directives["realm"] = "/"

QopReason == "Expected 'qop' == 'auth'"
CnonceReason == "Expected 'cnonce' in headers if qop is passed"
NcReason == "Expected 'nc' in headers if qop is passed"

(* C18: a qop directive must equal auth up to case, and with a qop          *)
(* directive both cnonce and nc must be present; a request that breaks      *)
(* either rule gets a 401 Digest challenge even if its response would       *)
(* match; without a qop directive cnonce and nc are optional.               *)
C18_QopRules ==
    RanDigest =>
        LET d == Directives
            has(k) == k \in DOMAIN d
            bad_qop == has("qop") /\ Lower(d["qop"]) # "auth"
            no_cnonce == has("qop") /\ ~has("cnonce")
            no_nc == has("qop") /\ ~has("nc")
        IN  /\ (bad_qop \/ no_cnonce \/ no_nc) =>
                  DigestChallenge /\ ~Forwarded
            /\ ReasonLogged(QopReason) <=> bad_qop
            /\ ReasonLogged(CnonceReason) <=> no_cnonce
            /\ ReasonLogged(NcReason) <=> no_nc
            /\ (~has("qop") /\ StructurallyValid
                /\ d["response"] = ExpectedDigest(ResolvedRealm))
               => Forwarded

C18_Witness ==
    /\ RanDigest
    /\ "qop" \in DOMAIN Directives
    /\ Directives["qop"] = "auth-int"
    /\ "nc" \in DOMAIN Directives
    /\ "cnonce" \in DOMAIN Directives
    /\ "uri" \in DOMAIN Directives
    /\ DirectiveResponse = ExpectedDigest(ResolvedRealm)
    /\ DigestChallenge

\* the calls of credentialHash made for the request, in order
A1Calls == SelectSeq(result.dc_calls,
                     LAMBDA c : c[1] = "compute_http_digest_a1")

\* the position of the last structural query to the authority
LastRealmUserCall ==
    LET at == { i \in DOMAIN result.dc_calls :
                  result.dc_calls[i][1] = "is_realm_user" }
    IN  IF at = {} THEN 0 ELSE CHOOSE i \in at : \A j \in at : j <= i

FirstA1Call ==
    CHOOSE i \in DOMAIN result.dc_calls :
        /\ result.dc_calls[i][1] = "compute_http_digest_a1"
        /\ \A j \in 1..(i - 1) : result.dc_calls[j][1] # "compute_http_digest_a1"

(* C19: credentialHash is called only for a request that passed every       *)
(* structural check, after those checks; first with the resolved realm and  *)
(* a second time, with realm "/", exactly when that digest mismatches and   *)
(* the root-share exception is enabled; never more than twice.              *)
C19_CredentialHashAfterChecks ==
    RanDigest =>
        /\ ~StructurallyValid => A1Calls = <<>>
        /\ Len(A1Calls) <= 2
        /\ A1Calls # <<>> =>
              /\ A1Calls[1] = <<"compute_http_digest_a1", ResolvedRealm,
                                DirectiveUser>>
              /\ LastRealmUserCall < FirstA1Call
        /\ Len(A1Calls) = 2 <=>
              /\ StructurallyValid
              /\ DirectiveResponse # ExpectedDigest(ResolvedRealm)
              /\ HOTFIX_WINXP_AcceptRootShareLogin
        /\ Len(A1Calls) = 2 =>
              A1Calls[2] = <<"compute_http_digest_a1", "/", DirectiveUser>>

C19_Witness ==
    /\ RanDigest
    /\ Len(A1Calls) = 2
    /\ DigestChallenge

-----------------------------------------------------------------------------
(* Sequences of requests: a client that answers challenges, reuses nonces   *)
(* and replays headers.  issued and accepted record what earlier requests   *)
(* of the sequence were answered with.                                      *)

\* the nonces a response offers: the nonce directive of a Digest challenge
ChallengeNonces(res) ==
    IF res.kind # "response" THEN {}
    ELSE { ParseAuthHeader(res.headers[i][2] \o ",")["nonce"] :
             i \in { j \in DOMAIN res.headers :
                       /\ res.headers[j][1] = "WWW-Authenticate"
                       /\ StartsWith(res.headers[j][2], "Digest ") } }

\* a nonce the server never sent
ForeignNonces == {"n1"}

\* the requests of a client that knows the nonces in known
SeqEnvirons(known) ==
    { MakeEnviron("GET", "/dav/f", None, a) :
        a \in {None}
              \cup { DigestHeader("Digest",
                                  [BaseProfile EXCEPT !.nonce = n, !.response = r],
                                  "GET") :
                       n \in ForeignNonces \cup known, r \in {"ok", "bad"} } }

InitSeq ==
    /\ phase = "new"
    /\ config \in [accept_basic : BOOLEAN, accept_digest : {TRUE},
                   default_to_digest : BOOLEAN, trusted_auth_header : {None}]
    /\ supports_digest = TRUE
    /\ dc_raises = None
    /\ HOTFIX_WINXP_AcceptRootShareLogin \in BOOLEAN
    /\ HOTFIX_WIN_AcceptAnonymousOptions = FALSE
    /\ accept_basic = None
    /\ accept_digest = None
    /\ default_to_digest = None
    /\ trusted_auth_header = None
    /\ nonce_dict = None
    /\ environ = None
    /\ result = None
    /\ inflight = <<>>
    /\ issued = {}
    /\ accepted = {}

\* the server calls the middleware with the next request of the sequence
RequestSeq ==
    /\ phase = "ready"
    /\ \E env \in SeqEnvirons(issued), randbits \in 0..MaxRandBits :
          /\ environ' = env
          /\ result' = Call(env, randbits)
    /\ phase' = "responded"
    /\ UNCHANGED <<config, accept_basic, accept_digest, default_to_digest,
                   trusted_auth_header, nonce_dict, supports_digest, dc_raises,
                   HOTFIX_WINXP_AcceptRootShareLogin,
                   HOTFIX_WIN_AcceptAnonymousOptions,
                   inflight, issued, accepted>>

\* the request is over: its outcome goes into the history
FinishSeq ==
    /\ phase = "responded"
    /\ phase' = "ready"
    /\ issued' = issued \cup ChallengeNonces(result)
    /\ accepted' = accepted
                   \cup (IF result.kind = "forward"
                            /\ "HTTP_AUTHORIZATION" \in DOMAIN environ
                         THEN {environ["HTTP_AUTHORIZATION"]} ELSE {})
    /\ environ' = None
    /\ result' = None
    /\ UNCHANGED <<config, accept_basic, accept_digest, default_to_digest,
                   trusted_auth_header, nonce_dict, supports_digest, dc_raises,
                   HOTFIX_WINXP_AcceptRootShareLogin,
                   HOTFIX_WIN_AcceptAnonymousOptions, inflight>>

NextSeq == Construct \/ RequestSeq \/ FinishSeq

SpecSeq == InitSeq /\ [][NextSeq]_vars

\* the nonce directive of the request
DirectiveNonce == Directives["nonce"]

\* the request repeats the Authorization header of an earlier forwarded one
Replayed == environ["HTTP_AUTHORIZATION"] \in accepted

(* C13: in every sequence of requests a structurally valid Digest request   *)
(* whose response matches is forwarded whatever its nonce is - never        *)
(* issued, issued, or used by an earlier accepted request - and the nonce   *)
(* dictionary stays as __init__ left it: empty.                             *)
C13_NoNonceCheck ==
    /\ phase \in {"ready", "responded"} => nonce_dict = EmptyDict
    /\ RanDigest /\ DigestVerified =>
          /\ Forwarded
          /\ result.realm = ResolvedRealm
          /\ result.user_name = DirectiveUser

C13_Witness ==
    /\ RanDigest
    /\ Replayed
    /\ DirectiveNonce \notin issued
    /\ issued # {}
    /\ Forwarded

\* a nonce the server did issue is taken as well, again and again
C13_WitnessIssued ==
    /\ RanDigest
    /\ Replayed
    /\ DirectiveNonce \in issued
    /\ Forwarded

-----------------------------------------------------------------------------
(* Concurrent requests: the server runs up to MaxInFlight calls of __call__ *)
(* at once, on one HTTPAuthenticator.  A call proceeds in steps; between    *)
(* two steps of a call the other calls may take any number of theirs.       *)
(* Each step reads the fields of self and the module globals when it runs.  *)

MaxInFlight == 2

Slots == 1..MaxInFlight

Idle == [pc |-> "idle", environ |-> None, ctx |-> None, handler |-> None,
         result |-> None]

\* lines 187-219: the call is over (done) with result, or goes on with ctx
CallBegin(env) ==
    LET ctx1 == DcCall(Enter(NewCtx, "__call__"),
                       "get_domain_realm", <<env["PATH_INFO"]>>)
        realm == get_domain_realm(env["PATH_INFO"])
        ctx2 == IF force_allow(env) THEN ctx1
                ELSE DcCall(ctx1, "require_authentication", <<realm>>)
        over(res) == [done |-> TRUE, result |-> res, ctx |-> None]
    IN  IF dc_raises = "get_domain_realm"
        THEN over(Raise(ctx1, "get_domain_realm"))
        ELSE IF ~force_allow(env) /\ dc_raises = "require_authentication"
        THEN over(Raise(ctx2, "require_authentication"))
        ELSE IF AnonymousOrTrusted(env, realm) # None
        THEN over(Forward(ctx2, realm, AnonymousOrTrusted(env, realm)))
        ELSE [done |-> FALSE, result |-> None, ctx |-> ctx2]

\* lines 221-255: the branch __call__ takes
CallDispatch(env) ==
    IF "HTTP_AUTHORIZATION" \in DOMAIN env
    THEN SelectHandler(AuthMethod(env["HTTP_AUTHORIZATION"]))
    ELSE DefaultHandler

\* the body of that branch
CallHandle(env, ctx, handler, randbits) ==
    CASE handler = "auth_digest_auth_request" ->
             auth_digest_auth_request(env, ctx, randbits)
      [] handler = "auth_basic_auth_request" ->
             auth_basic_auth_request(env, ctx)
      [] handler = "send_digest_auth_response" ->
             send_digest_auth_response(env, ctx, randbits)
      [] handler = "send_basic_auth_response" ->
             send_basic_auth_response(env, ctx)
      [] handler = "400 Bad Request" ->
             BadRequest(ctx, AuthMethod(env["HTTP_AUTHORIZATION"]))

\* a handler that keeps the nonces it sends
NonceDictAfter_Stored(dict, res) ==
    [n \in DOMAIN dict \cup ChallengeNonces(res) |-> TRUE]

\* self._nonce_dict after a handler produced res: no handler assigns to it
NonceDictAfter(dict, res) == dict

ConcEnvirons ==
    { MakeEnviron("GET", "/pub/f", None, None),
      MakeEnviron("GET", "/dav/f", "bob", None) }
    \cup { MakeEnviron("GET", "/dav/f", None, a) :
             a \in {None, "Basic dTpw", "Basic dTpx", "Bearer abc",
                    DigestHeader("Digest", BaseProfile, "GET"),
                    DigestHeader("Digest", [BaseProfile EXCEPT !.response = "bad"],
                                 "GET")} }

InitConc ==
    /\ phase = "new"
    /\ config \in [accept_basic : BOOLEAN, accept_digest : BOOLEAN,
                   default_to_digest : BOOLEAN,
                   trusted_auth_header : {TrustedHeaderName}]
    /\ supports_digest = TRUE
    /\ dc_raises = None
    /\ HOTFIX_WINXP_AcceptRootShareLogin = TRUE
    /\ HOTFIX_WIN_AcceptAnonymousOptions = FALSE
    /\ accept_basic = None
    /\ accept_digest = None
    /\ default_to_digest = None
    /\ trusted_auth_header = None
    /\ nonce_dict = None
    /\ environ = None
    /\ result = None
    /\ inflight = [p \in Slots |-> Idle]
    /\ issued = {}
    /\ accepted = {}

\* the server calls the middleware in slot p: lines 187-219
Begin(p) ==
    /\ phase = "ready"
    /\ inflight[p].pc = "idle"
    /\ \E env \in ConcEnvirons :
          LET b == CallBegin(env)
          IN  inflight' = [inflight EXCEPT ![p] =
                  [pc |-> IF b.done THEN "done" ELSE "dispatch",
                   environ |-> env, ctx |-> b.ctx, handler |-> None,
                   result |-> b.result]]
    /\ UNCHANGED <<phase, config, accept_basic, accept_digest, default_to_digest,
                   trusted_auth_header, nonce_dict, supports_digest, dc_raises,
                   HOTFIX_WINXP_AcceptRootShareLogin,
                   HOTFIX_WIN_AcceptAnonymousOptions,
                   environ, result, issued, accepted>>

\* lines 221-255: the call in slot p picks its branch
Dispatch(p) ==
    /\ phase = "ready"
    /\ inflight[p].pc = "dispatch"
    /\ inflight' = [inflight EXCEPT ![p].pc = "handle",
                                    ![p].handler = CallDispatch(inflight[p].environ)]
    /\ UNCHANGED <<phase, config, accept_basic, accept_digest, default_to_digest,
                   trusted_auth_header, nonce_dict, supports_digest, dc_raises,
                   HOTFIX_WINXP_AcceptRootShareLogin,
                   HOTFIX_WIN_AcceptAnonymousOptions,
                   environ, result, issued, accepted>>

\* the call in slot p runs the body of its branch
Handle(p) ==
    /\ phase = "ready"
    /\ inflight[p].pc = "handle"
    /\ \E randbits \in 0..MaxRandBits :
          inflight' = [inflight EXCEPT
                          ![p].pc = "done",
                          ![p].result = CallHandle(inflight[p].environ,
                                                   inflight[p].ctx,
                                                   inflight[p].handler, randbits)]
    /\ nonce_dict' = NonceDictAfter(nonce_dict, inflight'[p].result)
    /\ UNCHANGED <<phase, config, accept_basic, accept_digest, default_to_digest,
                   trusted_auth_header, supports_digest, dc_raises,
                   HOTFIX_WINXP_AcceptRootShareLogin,
                   HOTFIX_WIN_AcceptAnonymousOptions,
                   environ, result, issued, accepted>>

\* the call in slot p returns to the server
Return(p) ==
    /\ phase = "ready"
    /\ inflight[p].pc = "done"
    /\ inflight' = [inflight EXCEPT ![p] = Idle]
    /\ UNCHANGED <<phase, config, accept_basic, accept_digest, default_to_digest,
                   trusted_auth_header, nonce_dict, supports_digest, dc_raises,
                   HOTFIX_WINXP_AcceptRootShareLogin,
                   HOTFIX_WIN_AcceptAnonymousOptions,
                   environ, result, issued, accepted>>

NextConc ==
    \/ Construct
    \/ \E p \in Slots : Begin(p)
    \/ \E p \in Slots : Dispatch(p)
    \/ \E p \in Slots : Handle(p)
    \/ \E p \in Slots : Return(p)

SpecConc == InitConc /\ [][NextConc]_vars

\* the call in slot p is over and has not returned yet
Done(p) == phase = "ready" /\ inflight[p].pc = "done"

\* the fields of self are as __init__ set them
FieldsAsConstructed ==
    /\ accept_basic = config.accept_basic
    /\ accept_digest = config.accept_digest
    /\ default_to_digest = config.default_to_digest
    /\ trusted_auth_header = config.trusted_auth_header
    /\ nonce_dict = EmptyDict

\* what slot p did is what __call__ does with its request when it runs alone
AsIfAlone(p) ==
    \E randbits \in 0..MaxRandBits :
        inflight[p].result = Call(inflight[p].environ, randbits)

(* C20: whatever other calls ran before or in between, the outcome of a     *)
(* call is the outcome of __call__ run alone on a newly constructed gate    *)
(* for the same request, and the configuration fields and the nonce         *)
(* dictionary are as construction left them.                                *)
C20_NoStateAcrossRequests ==
    phase = "ready" =>
        /\ FieldsAsConstructed
        /\ \A p \in Slots : Done(p) => AsIfAlone(p)

C20_Witness ==
    /\ Done(1)
    /\ Done(2)
    /\ inflight[1].result.kind = "forward"
    /\ inflight[1].result.user_name = "u"
    /\ inflight[2].result.kind = "response"
    /\ inflight[2].result.status = "401 Not Authorized"
    /\ inflight[1].environ # inflight[2].environ

-----------------------------------------------------------------------------
(* Challenges and the configuration                                         *)

DcCallNames == { result.dc_calls[i][1] : i \in DOMAIN result.dc_calls }

\* the calls of authenticate made for the request
AuthenticateCalls == SelectSeq(result.dc_calls,
                               LAMBDA c : c[1] = "auth_domain_user")

(* C22: on a gate constructed over an authority that does not support       *)
(* digest, no request gets a Digest challenge, runs Digest verification or  *)
(* calls credentialHash or isRealmUser: every 401 is a Basic challenge and  *)
(* the only credential check made is authenticate, for the resolved realm.  *)
C22_PlainAuthorityBasicOnly ==
    Responded /\ ~supports_digest =>
        /\ ~DigestChallenge
        /\ ~Ran("send_digest_auth_response")
        /\ ~Ran("auth_digest_auth_request")
        /\ DcCallNames \subseteq {"get_domain_realm", "require_authentication",
                                  "auth_domain_user"}
        /\ Status("401 Not Authorized") => BasicChallenge
        /\ \A i \in DOMAIN AuthenticateCalls :
              /\ Len(AuthenticateCalls[i]) = 4
              /\ AuthenticateCalls[i][2] = ResolvedRealm

C22_Witness ==
    /\ Responded
    /\ ~supports_digest
    /\ HasAuthorization
    /\ MethodToken = "digest"
    /\ BasicChallenge

====
